---- MODULE Spec2Model ----
(***************************************************************************)
(* A model of the fed3 data core: FEDFrame datasets (fedframe.py), the     *)
(* reconciling functions split / concat (fedfuncs.py) and the light-cycle  *)
(* interval walk (lightcycle.py).                                          *)
(*                                                                         *)
(* A FEDFrame is a sequence of rows in index order.  A row is a function   *)
(* from column names to values; the key "index" holds the row's timestamp. *)
(* A pandas Series is a sequence of [index, value] entries, where value is *)
(* {} for "not available" (NaN) and {v} for the value v.                   *)
(***************************************************************************)
EXTENDS Integers, Sequences, FiniteSets, TLC

VARIABLES
    fed,                \* the FEDFrame an operation is called on
    dates,              \* split(): the `dates` argument
    feds,               \* the list of FEDFrames split() returned / concat() is given
    newfed,             \* concat(): the FEDFrame returned (<<>> before / when it raises)
    raised,             \* the exception the last call raised, "none" if it returned
    pc,                 \* position of the caller's script
    method,             \* FEDFrame accessor that was called, with its arguments
    ret,                \* what the accessor returned
    start_date,         \* lightcycle_tuples(): arguments ...
    end_date,
    lights_on,
    lights_off,
    kind,
    t,                  \* ... and the locals of its while loop
    lookfor,
    result,
    df_columns,         \* fix_column_names(): self.columns, in order
    foreign_columns,    \* ... self.foreign_columns
    missing_columns,    \* ... self.missing_columns
    before              \* the caller's copy of `fed`, taken before a call that works in place

recVars == <<fed, dates, feds, newfed, raised>>
sigVars == <<method, ret>>
lcVars == <<start_date, end_date, lights_on, lights_off, kind, t, lookfor, result>>
loadVars == <<df_columns, foreign_columns, missing_columns, before>>
vars == <<fed, dates, feds, newfed, raised, pc, method, ret,
          start_date, end_date, lights_on, lights_off, kind, t, lookfor, result,
          df_columns, foreign_columns, missing_columns, before>>

(***************************************************************************)
(* Bounds of the model.                                                    *)
(***************************************************************************)
\* timestamps of the rows of one recording are drawn from 1..MaxTime
MaxTime == 4
\* rows of the frame given to split(), and rows in total given to concat()
MaxRows == 3
\* length of the `dates` list given to split()
MaxDates == 2

(***************************************************************************)
(* Recordings: what the device logs.  Every row is one event; the event    *)
(* increments its counter, which starts from zero when the device starts.  *)
(***************************************************************************)
Events == {"Pellet", "Left", "Right"}

reset_columns == {"Pellet_Count", "Left_Poke_Count", "Right_Poke_Count"}

CounterOf(e) ==
    CASE e = "Pellet" -> "Pellet_Count"
      [] e = "Left" -> "Left_Poke_Count"
      [] e = "Right" -> "Right_Poke_Count"

FirstRow(ts, e) ==
    [index |-> ts, Event |-> e,
     Pellet_Count |-> IF e = "Pellet" THEN 1 ELSE 0,
     Left_Poke_Count |-> IF e = "Left" THEN 1 ELSE 0,
     Right_Poke_Count |-> IF e = "Right" THEN 1 ELSE 0]

NextRow(prev, ts, e) ==
    [c \in DOMAIN prev |->
        CASE c = "index" -> ts
          [] c = "Event" -> e
          [] c = CounterOf(e) -> prev[c] + 1
          [] OTHER -> prev[c]]

RECURSIVE Recordings(_, _)
\* all recordings of exactly n rows, timestamps strictly increasing in 1..last
Recordings(n, last) ==
    IF n = 0 THEN {<<>>}
    ELSE IF n = 1 THEN {<<FirstRow(ts, e)>> : ts \in 1..last, e \in Events}
    ELSE UNION {{Append(f, NextRow(f[n - 1], ts, e)) :
                    ts \in (f[n - 1].index + 1)..last, e \in Events} :
                f \in Recordings(n - 1, last)}

RecordingsUpTo(n) == UNION {Recordings(k, MaxTime) : k \in 1..n}

RECURSIVE RecordingLists(_)
\* all lists of non-empty recordings with at most n rows in total, in any order
RecordingLists(n) ==
    {<<>>} \cup
    UNION {{<<f>> \o rest : rest \in RecordingLists(n - Len(f))} :
           f \in RecordingsUpTo(n)}

RECURSIVE SeqsUpTo(_, _)
SeqsUpTo(S, n) ==
    IF n = 0 THEN {<<>>}
    ELSE SeqsUpTo(S, n - 1) \cup
         {Append(s, x) : s \in {q \in SeqsUpTo(S, n - 1) : Len(q) = n - 1}, x \in S}

(***************************************************************************)
(* FEDFrame properties and small pandas helpers.                           *)
(***************************************************************************)
Max(S) == CHOOSE x \in S : \A y \in S : y <= x

columns(df) == IF df = <<>> THEN {} ELSE DOMAIN df[1] \ {"index"}

\* df[col].max()
ColMax(df, col) == Max({df[k][col] : k \in 1..Len(df)})

start_time(df) == df[1].index

end_time(df) == df[Len(df)].index

RemoveAt(s, i) == SubSeq(s, 1, i - 1) \o SubSeq(s, i + 1, Len(s))

RECURSIVE sorted_by_start_time(_)
\* sorted(feds, key=lambda x: x.start_time): a stable sort
sorted_by_start_time(fs) ==
    IF fs = <<>> THEN <<>>
    ELSE LET m == CHOOSE i \in 1..Len(fs) :
                    \A j \in 1..Len(fs) :
                        \/ start_time(fs[i]) < start_time(fs[j])
                        \/ start_time(fs[i]) = start_time(fs[j]) /\ i <= j
         IN <<fs[m]>> \o sorted_by_start_time(RemoveAt(fs, m))

RECURSIVE Flatten(_)
\* pd.concat(output): the rows of the frames, one frame after the other
Flatten(fs) == IF fs = <<>> THEN <<>> ELSE Head(fs) \o Flatten(Tail(fs))

(***************************************************************************)
(* fedfuncs.split                                                          *)
(***************************************************************************)
old == 0

future == MaxTime + 2

_split_handle_dates(ds) == <<old>> \o ds \o <<future>>

\* fed[(fed.index >= start) & (fed.index < end)].copy()
SplitSubset(df, start, end) ==
    SelectSeq(df, LAMBDA r : r.index >= start /\ r.index < end)

\* subset[col] -= offsets[col], for every col of reset_columns
SplitRebase(subset, offsets) ==
    [k \in 1..Len(subset) |->
        [c \in DOMAIN subset[k] |->
            IF c \in reset_columns THEN subset[k][c] - offsets[c]
            ELSE subset[k][c]]]

\* offsets[col] = subset[col].max(), taken after the subtraction
SplitOffsets(subset) == [c \in reset_columns |-> ColMax(subset, c)]

RECURSIVE SplitLoop(_, _, _, _, _)
SplitLoop(df, bs, i, offsets, output) ==
    IF i > Len(bs) - 1 THEN output
    ELSE LET subset == SplitSubset(df, bs[i], bs[i + 1])
         IN IF subset = <<>>
            THEN SplitLoop(df, bs, i + 1, offsets, output)
            ELSE LET rebased == SplitRebase(subset, offsets)
                 IN SplitLoop(df, bs, i + 1, SplitOffsets(rebased),
                              Append(output, rebased))

\* split(fed, dates) with the defaults return_empty=False, reset_columns
split(df, ds) ==
    SplitLoop(df, _split_handle_dates(ds), 1, [c \in reset_columns |-> 0], <<>>)

(***************************************************************************)
(* fedfuncs.can_concat, fedfuncs.concat                                    *)
(***************************************************************************)
\* a can_concat that lets a frame start exactly where the previous one ends
can_concat_touching(fs) ==
    LET sorted_feds == sorted_by_start_time(fs)
    IN \A i \in 2..Len(sorted_feds) :
            ~(start_time(sorted_feds[i]) < end_time(sorted_feds[i - 1]))

can_concat(fs) ==
    LET sorted_feds == sorted_by_start_time(fs)
    IN \A i \in 2..Len(sorted_feds) :
            ~(start_time(sorted_feds[i]) <= end_time(sorted_feds[i - 1]))

\* df["Concat_#"] = i  (i counts from 0)
AddConcatNumber(df, i) ==
    [k \in 1..Len(df) |->
        [c \in DOMAIN df[k] \cup {"Concat_#"} |->
            IF c = "Concat_#" THEN i ELSE df[k][c]]]

\* offsets[col] = df[col].max(), for the reset columns the frame has
ConcatOffsets(df) == [c \in reset_columns \cap columns(df) |-> ColMax(df, c)]

\* a rebase that forgets to add the running offsets
ConcatRebase_forgotten(df, offsets) == df

\* df[col] += offset, for col, offset in offsets.items()
ConcatRebase(df, offsets) ==
    [k \in 1..Len(df) |->
        [c \in DOMAIN df[k] |->
            IF c \in DOMAIN offsets THEN df[k][c] + offsets[c] ELSE df[k][c]]]

RECURSIVE ConcatLoop(_, _, _, _)
ConcatLoop(sorted_feds, i, offsets, output) ==
    IF i > Len(sorted_feds) THEN output
    ELSE LET df == AddConcatNumber(sorted_feds[i], i - 1)
         IN IF i = 1
            THEN ConcatLoop(sorted_feds, i + 1, ConcatOffsets(df), Append(output, df))
            ELSE LET rebased == ConcatRebase(df, offsets)
                 IN ConcatLoop(sorted_feds, i + 1,
                               [c \in DOMAIN offsets |-> ColMax(rebased, c)],
                               Append(output, rebased))

\* concat(feds) for feds that can be concatenated, add_concat_number=True
concat(fs) == Flatten(ConcatLoop(sorted_by_start_time(fs), 1, <<>>, <<>>))

(***************************************************************************)
(* The caller's script: split a frame and concatenate the parts again      *)
(* (SpecSplit), or concatenate a list of recordings (SpecConcat).          *)
(***************************************************************************)
\* no accessor was called
IdleSignals == method = [name |-> "none"] /\ ret = <<>>

\* lightcycle_tuples was not called
IdleLightcycle ==
    /\ start_date = 0 /\ end_date = 0 /\ lights_on = 0 /\ lights_off = 0
    /\ kind = "none" /\ t = 0 /\ lookfor = "none" /\ result = <<>>

\* no frame is being loaded or cleaned
IdleLoad ==
    /\ df_columns = <<>> /\ foreign_columns = <<>> /\ missing_columns = <<>>
    /\ before = <<>>

Idle == IdleSignals /\ IdleLightcycle /\ IdleLoad

InitSplit ==
    /\ fed \in RecordingsUpTo(MaxRows)
    /\ dates \in SeqsUpTo(1..(MaxTime + 1), MaxDates) \ {<<>>}
    /\ feds = <<>>
    /\ newfed = <<>>
    /\ raised = "none"
    /\ pc = "split"
    /\ Idle

InitConcat ==
    /\ fed = <<>>
    /\ dates = <<>>
    /\ feds \in RecordingLists(MaxRows) \ {<<>>}
    /\ newfed = <<>>
    /\ raised = "none"
    /\ pc = "concat"
    /\ Idle

Split ==
    /\ pc = "split"
    /\ feds' = split(fed, dates)
    /\ pc' = "concat"
    /\ UNCHANGED <<fed, dates, newfed, raised, sigVars, lcVars, loadVars>>

Concat ==
    /\ pc = "concat"
    /\ IF ~can_concat(feds)
       THEN raised' = "ValueError" /\ newfed' = newfed
       ELSE raised' = raised /\ newfed' = concat(feds)
    /\ pc' = "done"
    /\ UNCHANGED <<fed, dates, feds, sigVars, lcVars, loadVars>>

NextSplit == Split \/ Concat

SpecSplit == InitSplit /\ [][NextSplit]_vars

NextConcat == Concat

SpecConcat == InitConcat /\ [][NextConcat]_vars

(***************************************************************************)
(* Claims about split and concat.                                          *)
(***************************************************************************)
Ascending(ds) == \A i \in 1..(Len(ds) - 1) : ds[i] < ds[i + 1]

\* every split date lies strictly inside the frame's time range
StrictlyInside(ds, df) ==
    \A i \in 1..Len(ds) : start_time(df) < ds[i] /\ ds[i] < end_time(df)

\* the row of df with timestamp ts (timestamps of a recording are unique)
RowAt(df, ts) == df[CHOOSE k \in 1..Len(df) : df[k].index = ts]

\* the largest value of col among the rows of df before timestamp ts, 0 if none
MaxBefore(df, col, ts) ==
    Max({0} \cup {df[k][col] : k \in {j \in 1..Len(df) : df[j].index < ts}})

\* the split ran on a frame (SpecSplit) and its output is in feds
AfterSplit == pc = "concat" /\ fed # <<>>

\* the parts were concatenated again
AfterSplitConcat == pc = "done" /\ fed # <<>>

\* C1: split followed by concat round-trips the counters: for ascending split
\* dates strictly inside the frame's time range, concat(split(fed, dates))
\* succeeds and has, at every row, the original value of each counter column.
C1_SplitConcatRoundTrip ==
    (AfterSplitConcat /\ Ascending(dates) /\ StrictlyInside(dates, fed)) =>
        /\ raised = "none"
        /\ Len(newfed) = Len(fed)
        /\ \A k \in 1..Len(fed) : \A c \in reset_columns :
                newfed[k][c] = fed[k][c]

\* C2: split rebases every output segment to restart near zero: for ascending
\* split dates, each row of every output segment after the first has each
\* reset column equal to its original value minus the maximum original value
\* of that column over all rows of earlier segments.
C2_SplitRebasesEverySegment ==
    (AfterSplit /\ Ascending(dates)) =>
        \A s \in 2..Len(feds) : \A k \in 1..Len(feds[s]) : \A c \in reset_columns :
            feds[s][k][c] =
                RowAt(fed, feds[s][k].index)[c]
                    - MaxBefore(fed, c, start_time(feds[s]))

RECURSIVE SortedDates(_)
SortedDates(ds) ==
    IF ds = <<>> THEN <<>>
    ELSE LET m == CHOOSE i \in 1..Len(ds) : \A j \in 1..Len(ds) : ds[i] <= ds[j]
         IN <<ds[m]>> \o SortedDates(RemoveAt(ds, m))

\* the number of rows with timestamp ts over all frames of the list fs
Occurrences(fs, ts) ==
    Cardinality({p \in UNION {{<<s, k>> : k \in 1..Len(fs[s])} : s \in 1..Len(fs)} :
                    fs[p[1]][p[2]].index = ts})

\* C5: split sorts its dates into brackets that partition the rows: for dates
\* given in any order every row of the frame lands in exactly one output
\* segment, the one between the two neighbouring dates in ascending order,
\* and the output is the one the ascending dates give.
C5_SplitPartitionsAnyOrder ==
    AfterSplit =>
        /\ \A k \in 1..Len(fed) : Occurrences(feds, fed[k].index) = 1
        /\ \A s \in 1..Len(feds) : \A d \in 1..Len(dates) :
                ~(start_time(feds[s]) < dates[d] /\ dates[d] <= end_time(feds[s]))
        /\ feds = split(fed, SortedDates(dates))

\* the time ranges of two frames of the list intersect
RangesIntersect(fs) ==
    \E i \in 1..Len(fs) : \E j \in 1..Len(fs) :
        /\ i # j
        /\ start_time(fs[i]) <= end_time(fs[j])
        /\ start_time(fs[j]) <= end_time(fs[i])

\* concat ran on a list of recordings (SpecConcat)
AfterConcat == pc = "done" /\ fed = <<>>

\* the rows of all frames of the list
RowsOf(fs) == UNION {{fs[i][k] : k \in 1..Len(fs[i])} : i \in 1..Len(fs)}

\* how many frames of the list start before frame i does
Rank(fs, i) == Cardinality({j \in 1..Len(fs) : start_time(fs[j]) < start_time(fs[i])})

\* C3: concat rebasing keeps counters monotonic: for recordings with pairwise
\* non-overlapping time ranges given in any order, the concatenated frame holds
\* every input row once, is ordered by timestamp, every reset column is
\* non-decreasing over the whole frame, and the rows of an input frame carry
\* its rank as Concat_# and its values plus the maximum rebased value reached
\* in the segments before it.
C3_ConcatMonotonic ==
    (AfterConcat /\ ~RangesIntersect(feds)) =>
        /\ raised = "none"
        /\ Len(newfed) = Cardinality(RowsOf(feds))
        /\ \A k \in 1..(Len(newfed) - 1) :
                /\ newfed[k].index < newfed[k + 1].index
                /\ \A c \in reset_columns : newfed[k][c] <= newfed[k + 1][c]
        /\ \A i \in 1..Len(feds) : \A k \in 1..Len(feds[i]) :
                LET r == RowAt(newfed, feds[i][k].index)
                IN /\ r["Concat_#"] = Rank(feds, i)
                   /\ \A c \in reset_columns :
                        r[c] = feds[i][k][c]
                                + MaxBefore(newfed, c, start_time(feds[i]))

\* three recordings, not given in time order, each with a pellet, concatenated
C3_Witness ==
    /\ AfterConcat /\ raised = "none"
    /\ Len(feds) = 3
    /\ start_time(feds[1]) > start_time(feds[3])
    /\ \A i \in 1..3 : ColMax(feds[i], "Pellet_Count") = 1
    /\ newfed[Len(newfed)].Pellet_Count = 3

\* C4: concat is rejected exactly on overlap: it raises ValueError and returns
\* no frame if and only if the time ranges of two of the frames intersect
\* (a start equal to another frame's end included); otherwise it returns a frame.
C4_ConcatRejectsExactlyOverlap ==
    AfterConcat =>
        IF RangesIntersect(feds)
        THEN raised = "ValueError" /\ newfed = <<>>
        ELSE raised = "none" /\ newfed # <<>>

\* rejected although the ranges only touch: one frame starts where another ends
C4_Witness ==
    /\ AfterConcat /\ raised = "ValueError" /\ newfed = <<>>
    /\ Len(feds) = 2
    /\ start_time(feds[1]) = end_time(feds[2])
    /\ start_time(feds[2]) < start_time(feds[1])

(***************************************************************************)
(* fedframe.FEDFrame: event_type, _binary_pellets, interpellet_intervals,  *)
(* meals.  Timestamps of the frames these are called on are whole minutes. *)
(***************************************************************************)
NaN == {}

Min(S) == CHOOSE x \in S : \A y \in S : x <= y

\* the value of a Series entry that is not NaN
Val(e) == CHOOSE v \in e.value : TRUE

\* self.index.duplicated().any()
check_duplicated_index(df) ==
    \E i \in 1..Len(df) : \E j \in 1..Len(df) : i # j /\ df[i].index = df[j].index

\* self.loc[timestamp, col] for a timestamp that occurs once in the index
loc(df, ts, col) == RowAt(df, ts)[col]

\* how many of the three tests `count == 0` are true
ZeroCounters(df, ts) ==
    Cardinality({c \in {"Pellet_Count", "Left_Poke_Count", "Right_Poke_Count"} :
                    loc(df, ts, c) = 0})

\* an event_type that settles for two or more tests true
event_type_raises_below_two(df, ts) ==
    /\ "Event" \notin columns(df)
    /\ ZeroCounters(df, ts) < 2

\* event_type raises Exception: no Event column and not exactly two tests true
event_type_raises(df, ts) ==
    /\ "Event" \notin columns(df)
    /\ ZeroCounters(df, ts) # 2

\* event_type(timestamp, poke_side), when it does not raise
event_type(df, ts, poke_side) ==
    IF "Event" \in columns(df) THEN loc(df, ts, "Event")
    ELSE LET pellet == loc(df, ts, "Pellet_Count") = 0
             left == loc(df, ts, "Left_Poke_Count") = 0
             right == loc(df, ts, "Right_Poke_Count") = 0
         IN IF pellet THEN "Pellet"
            ELSE IF left THEN (IF poke_side THEN "Left" ELSE "Poke")
            ELSE IF right THEN (IF poke_side THEN "Right" ELSE "Poke")
            ELSE "None"

\* self[col].diff(): NaN at the leading row, then the first differences
Diff(df, col) ==
    [k \in 1..Len(df) |->
        [index |-> df[k].index,
         value |-> IF k = 1 THEN NaN ELSE {df[k][col] - df[k - 1][col]}]]

\* _binary_pellets raises what event_type raises for the leading row
binary_pellets_raises(df) == df # <<>> /\ event_type_raises(df, df[1].index)

_binary_pellets(df) ==
    LET bp == Diff(df, "Pellet_Count")
    IN IF bp = <<>> THEN bp
       ELSE [bp EXCEPT ![1].value =
                {IF event_type(df, bp[1].index, TRUE) = "Pellet" THEN 1 ELSE 0}]

\* (b - a).total_seconds() / 60 for timestamps in whole minutes
MinutesBetween(a, b) == ((b - a) * 60) \div 60

\* bp[bp == 1]
PelletEntries(bp) == SelectSeq(bp, LAMBDA e : e.value = {1})

\* bp.index.to_series().diff().dt.total_seconds() / 60
IndexDiff(bp) ==
    [k \in 1..Len(bp) |->
        [index |-> bp[k].index,
         value |-> IF k = 1 THEN NaN
                   ELSE {MinutesBetween(bp[k - 1].index, bp[k].index)}]]

\* the value a Series holds at timestamp ts, NaN when ts is not in its index
ValueAt(series, ts) ==
    IF \E k \in 1..Len(series) : series[k].index = ts
    THEN series[CHOOSE k \in 1..Len(series) : series[k].index = ts].value
    ELSE NaN

\* series.reindex(self.index)
Reindex(series, df) ==
    [k \in 1..Len(df) |-> [index |-> df[k].index, value |-> ValueAt(series, df[k].index)]]

\* series.dropna()
dropna(series) == SelectSeq(series, LAMBDA e : e.value # NaN)

RECURSIVE SortedSeqOf(_)
SortedSeqOf(S) ==
    IF S = {} THEN <<>> ELSE <<Min(S)>> \o SortedSeqOf(S \ {Min(S)})

\* dropped.index.to_series().groupby(self['Concat_#']).first(): for every
\* Concat_# that has an entry in dropped, in ascending order, the first
\* timestamp of its entries
ConcatGroupFirsts(df, dropped) ==
    LET key(k) == loc(df, dropped[k].index, "Concat_#")
        keys == SortedSeqOf({key(k) : k \in 1..Len(dropped)})
    IN [g \in 1..Len(keys) |->
            dropped[Min({k \in 1..Len(dropped) : key(k) = keys[g]})].index]

\* pos[1:]
ConcatBoundaries(pos) == IF pos = <<>> THEN <<>> ELSE Tail(pos)

\* interpellet.loc[pos[1:]] = np.nan
SetNaN(series, stamps) ==
    [k \in 1..Len(series) |->
        IF \E i \in 1..Len(stamps) : stamps[i] = series[k].index
        THEN [series[k] EXCEPT !.value = NaN]
        ELSE series[k]]

interpellet_intervals(df, check_concat, condense) ==
    LET bp == PelletEntries(_binary_pellets(df))
        diff == IndexDiff(bp)
        interpellet == Reindex(diff, df)
        checked ==
            IF check_concat /\ "Concat_#" \in columns(df)
                            /\ ~check_duplicated_index(df)
            THEN SetNaN(interpellet,
                        ConcatBoundaries(ConcatGroupFirsts(df, dropna(interpellet))))
            ELSE interpellet
    IN IF condense
       THEN dropna(SelectSeq(checked,
                LAMBDA e : \E k \in 1..Len(bp) : bp[k].index = e.index))
       ELSE checked

\* (~within_interval).cumsum() + 1
MealRuns(ipi, intermeal_interval) ==
    [k \in 1..Len(ipi) |->
        Cardinality({j \in 1..k : ~(Val(ipi[j]) < intermeal_interval)}) + 1]

\* meals.value_counts().sort_index() >= pellet_minimum
MealAboveMin(runs, pellet_minimum) ==
    [g \in {runs[k] : k \in 1..Len(runs)} |->
        Cardinality({k \in 1..Len(runs) : runs[k] = g}) >= pellet_minimum]

\* replacements that hand an undersized run the number of the next valid run
MealReplacements_bfill(above_min) ==
    [g \in DOMAIN above_min |->
        IF \E h \in DOMAIN above_min : h >= g /\ above_min[h]
        THEN {Cardinality({h \in DOMAIN above_min :
                h <= Min({x \in DOMAIN above_min : x >= g /\ above_min[x]})
                /\ above_min[h]})}
        ELSE NaN]

\* above_min[above_min].cumsum().reindex(above_min.index)
MealReplacements(above_min) ==
    [g \in DOMAIN above_min |->
        IF above_min[g]
        THEN {Cardinality({h \in DOMAIN above_min : h <= g /\ above_min[h]})}
        ELSE NaN]

meals(df, pellet_minimum, intermeal_interval, condense) ==
    LET ipi == interpellet_intervals(df, TRUE, TRUE)
        runs == MealRuns(ipi, intermeal_interval)
        replacements == MealReplacements(MealAboveMin(runs, pellet_minimum))
        mapped == [k \in 1..Len(ipi) |->
                      [index |-> ipi[k].index, value |-> replacements[runs[k]]]]
    IN IF condense THEN mapped ELSE Reindex(mapped, df)

(***************************************************************************)
(* The frames the accessors are called on (SpecSignals): a recording, a    *)
(* recording of legacy firmware (no Event column), or the concatenation of *)
(* consecutive recordings.                                                 *)
(***************************************************************************)
\* timestamps (minutes) of these recordings are drawn from 1..MaxMinute
MaxMinute == 5
\* rows of a frame
MaxEvents == 4
\* meals(): pellet_minimum is drawn from 1..MaxPelletMinimum
MaxPelletMinimum == 2
\* meals(): intermeal_interval is drawn from 1..MaxIntermeal
MaxIntermeal == 2

DropEvent(df) ==
    [k \in 1..Len(df) |-> [c \in DOMAIN df[k] \ {"Event"} |-> df[k][c]]]

\* rows a..b of a log as the recording of a device started before row a
Restart(f, a, b) ==
    [k \in 1..(b - a + 1) |->
        [c \in DOMAIN f[1] |->
            IF c \in reset_columns /\ a > 1
            THEN f[a + k - 1][c] - f[a - 1][c]
            ELSE f[a + k - 1][c]]]

RECURSIVE Pieces(_, _, _)
\* the log f from row a on, cut after the rows in C
Pieces(f, C, a) ==
    IF a > Len(f) THEN <<>>
    ELSE LET b == IF \E c \in C : c >= a THEN Min({c \in C : c >= a}) ELSE Len(f)
         IN <<Restart(f, a, b)>> \o Pieces(f, C, b + 1)

\* the rows of f from row a on, as df.iloc[a-1:] gives them
RowsFrom(f, a) == SubSeq(f, a, Len(f))

SignalFrames ==
    UNION {{f, DropEvent(f)} \cup
           {DropEvent(RowsFrom(f, a)) : a \in 2..Len(f)} \cup
           {concat(Pieces(f, C, 1)) : C \in SUBSET (1..(Len(f) - 1))} :
           f \in UNION {Recordings(n, MaxMinute) : n \in 1..MaxEvents}}

InitSignals ==
    /\ fed \in SignalFrames
    /\ dates = <<>>
    /\ feds = <<>>
    /\ newfed = <<>>
    /\ raised = "none"
    /\ pc = "loaded"
    /\ IdleSignals
    /\ IdleLightcycle
    /\ IdleLoad

BinaryPellets ==
    /\ pc = "loaded"
    /\ method' = [name |-> "_binary_pellets"]
    /\ IF binary_pellets_raises(fed)
       THEN raised' = "Exception" /\ ret' = ret
       ELSE raised' = raised /\ ret' = _binary_pellets(fed)
    /\ pc' = "returned"
    /\ UNCHANGED <<fed, dates, feds, newfed, lcVars, loadVars>>

InterpelletIntervals ==
    /\ pc = "loaded"
    /\ \E condense \in BOOLEAN :
        /\ method' = [name |-> "interpellet_intervals", condense |-> condense]
        /\ IF binary_pellets_raises(fed)
           THEN raised' = "Exception" /\ ret' = ret
           ELSE raised' = raised /\ ret' = interpellet_intervals(fed, TRUE, condense)
    /\ pc' = "returned"
    /\ UNCHANGED <<fed, dates, feds, newfed, lcVars, loadVars>>

Meals ==
    /\ pc = "loaded"
    /\ \E pellet_minimum \in 1..MaxPelletMinimum :
       \E intermeal_interval \in 1..MaxIntermeal :
        /\ method' = [name |-> "meals", pellet_minimum |-> pellet_minimum,
                      intermeal_interval |-> intermeal_interval]
        /\ IF binary_pellets_raises(fed)
           THEN raised' = "Exception" /\ ret' = ret
           ELSE raised' = raised
                /\ ret' = meals(fed, pellet_minimum, intermeal_interval, FALSE)
    /\ pc' = "returned"
    /\ UNCHANGED <<fed, dates, feds, newfed, lcVars, loadVars>>

NextSignals == BinaryPellets \/ InterpelletIntervals \/ Meals

SpecSignals == InitSignals /\ [][NextSignals]_vars

(***************************************************************************)
(* Claims about the derived signals.                                       *)
(***************************************************************************)
Returned(name) == pc = "returned" /\ method.name = name

RECURSIVE SeriesSum(_)
SeriesSum(series) ==
    IF series = <<>> THEN 0 ELSE Val(Head(series)) + SeriesSum(Tail(series))

\* C9: leading binary pellet value reflects the first event: for a frame
\* without an Event column whose first row has exactly one non-zero counter,
\* the first entry of the binary pellet series is 1 exactly when Pellet_Count
\* is the non-zero counter, every later entry is the first difference of
\* Pellet_Count, and when the first row has Pellet_Count 1 the series sums to
\* the last Pellet_Count.
C9_LeadingBinaryPellet ==
    (/\ Returned("_binary_pellets")
     /\ "Event" \notin columns(fed)
     /\ Cardinality({c \in reset_columns : fed[1][c] # 0}) = 1) =>
        /\ raised = "none"
        /\ Len(ret) = Len(fed)
        /\ ret[1].value = {IF fed[1].Pellet_Count # 0 THEN 1 ELSE 0}
        /\ \A k \in 2..Len(fed) :
                ret[k].value = {fed[k].Pellet_Count - fed[k - 1].Pellet_Count}
        /\ fed[1].Pellet_Count = 1 =>
                SeriesSum(ret) = fed[Len(fed)].Pellet_Count

\* the rows of a frame with an Event column that log a pellet, in time order
PelletRows(df) == SelectSeq(df, LAMBDA r : r.Event = "Pellet")

\* the pellets form two clusters: exactly one gap between consecutive pellets
\* exceeds the interval, and every other gap is below it
TwoClusters(ps, intermeal_interval) ==
    /\ Cardinality({k \in 2..Len(ps) :
            ps[k].index - ps[k - 1].index > intermeal_interval}) = 1
    /\ \A k \in 2..Len(ps) :
            \/ ps[k].index - ps[k - 1].index > intermeal_interval
            \/ ps[k].index - ps[k - 1].index < intermeal_interval

\* the first pellet of the second cluster
ClusterBreak(ps, intermeal_interval) ==
    CHOOSE k \in 2..Len(ps) : ps[k].index - ps[k - 1].index > intermeal_interval

\* C6: meal segmentation labels every pellet of each cluster: for pellets
\* forming two clusters, meals(pellet_minimum=1) yields exactly 2 distinct meal
\* ids and every pellet, the very first included, carries the id of its cluster.
C6_MealsLabelEveryPellet ==
    (/\ Returned("meals")
     /\ method.pellet_minimum = 1
     /\ columns(fed) = reset_columns \cup {"Event"}
     /\ TwoClusters(PelletRows(fed), method.intermeal_interval)) =>
        LET ps == PelletRows(fed)
            b == ClusterBreak(ps, method.intermeal_interval)
            id(k) == ValueAt(ret, ps[k].index)
        IN /\ raised = "none"
           /\ Cardinality({e.value : e \in {ret[k] : k \in 1..Len(ret)}} \ {NaN}) = 2
           /\ \A k \in 1..Len(ps) : id(k) # NaN
           /\ \A k \in 1..Len(ps) : id(k) = IF k < b THEN id(1) ELSE id(b)
           /\ id(1) # id(b)

\* the runs of the condensed interpellet intervals: two entries are in the
\* same run when no interval from the later of the two back to the one after
\* the earlier reaches the intermeal interval
SameRun(ipi, i, j, intermeal_interval) ==
    \A k \in 1..Len(ipi) :
        ((i < k /\ k <= j) \/ (j < k /\ k <= i)) => Val(ipi[k]) < intermeal_interval

RunSize(ipi, i, intermeal_interval) ==
    Cardinality({j \in 1..Len(ipi) : SameRun(ipi, i, j, intermeal_interval)})

\* entry i is the first of a run that has at least pellet_minimum members
ValidRunStart(ipi, i, pellet_minimum, intermeal_interval) ==
    /\ i = 1 \/ ~(Val(ipi[i]) < intermeal_interval)
    /\ RunSize(ipi, i, intermeal_interval) >= pellet_minimum

\* the meal ids that appear are 1..k for some k
CompactIds(series) ==
    LET ids == UNION {series[k].value : k \in 1..Len(series)}
    IN ids = 1..Cardinality(ids)

\* C7 as stated: undersized meal runs are absorbed forward, not dropped: every
\* pellet of a run with fewer than pellet_minimum members that is followed by
\* a run with at least that many receives the meal id of the next such run,
\* and the ids that appear form the compacted sequence 1..k.
C7_UndersizedRunsAbsorbedForward ==
    (Returned("meals") /\ raised = "none" /\ "Event" \in columns(fed)) =>
        LET ipi == interpellet_intervals(fed, TRUE, TRUE)
            m == method.pellet_minimum
            g == method.intermeal_interval
        IN /\ \A i \in 1..Len(ipi) : \A j \in 1..Len(ipi) :
                (/\ RunSize(ipi, i, g) < m
                 /\ i < j
                 /\ ValidRunStart(ipi, j, m, g)
                 /\ \A k \in (i + 1)..(j - 1) : ~ValidRunStart(ipi, k, m, g)) =>
                    /\ ValueAt(ret, ipi[i].index) # NaN
                    /\ ValueAt(ret, ipi[i].index) = ValueAt(ret, ipi[j].index)
           /\ CompactIds(ret)

\* C7 as amended: undersized meal runs are dropped: every pellet of a run (of
\* the condensed interpellet intervals) with fewer than pellet_minimum members
\* is left without a meal id, also when a run with enough members follows;
\* every pellet of a run with enough members carries the number of that run
\* among the runs with enough members, so the ids that appear form the
\* compacted sequence 1..k, non-decreasing in time; rows without an
\* interpellet interval carry no id.
C7_UndersizedRunsDropped ==
    (Returned("meals") /\ raised = "none") =>
        LET ipi == interpellet_intervals(fed, TRUE, TRUE)
            m == method.pellet_minimum
            g == method.intermeal_interval
        IN /\ Len(ret) = Len(fed)
           /\ \A i \in 1..Len(ipi) :
                ValueAt(ret, ipi[i].index) =
                    IF RunSize(ipi, i, g) < m THEN NaN
                    ELSE {Cardinality({j \in 1..i : ValidRunStart(ipi, j, m, g)})}
           /\ \A k \in 1..Len(fed) :
                (\A i \in 1..Len(ipi) : ipi[i].index # fed[k].index) =>
                    ret[k].value = NaN
           /\ CompactIds(ret)
           /\ \A i \in 1..Len(ret) : \A j \in i..Len(ret) :
                (ret[i].value # NaN /\ ret[j].value # NaN) =>
                    Val(ret[i]) <= Val(ret[j])

\* meals(pellet_minimum=2): a run of one interval is followed by a run of two,
\* the pellet of the first is left without an id and the second run is meal 1
C7_Witness ==
    /\ Returned("meals") /\ raised = "none"
    /\ "Event" \in columns(fed)
    /\ method.pellet_minimum = 2
    /\ LET ipi == interpellet_intervals(fed, TRUE, TRUE)
           g == method.intermeal_interval
       IN /\ Len(ipi) = 3
          /\ RunSize(ipi, 1, g) = 1
          /\ RunSize(ipi, 2, g) = 2
          /\ ValueAt(ret, ipi[1].index) = NaN
          /\ ValueAt(ret, ipi[2].index) = {1}
          /\ ValueAt(ret, ipi[3].index) = {1}

\* C8: interpellet intervals never span a concatenation boundary: in a
\* concatenated frame with unique timestamps the interval at the first pellet
\* of every segment after the first is not available, however the pellets are
\* spread over the segments, and the interval between two pellets of the same
\* segment is the time between them.
C8_NoIntervalAcrossConcatBoundary ==
    (/\ Returned("interpellet_intervals")
     /\ ~method.condense
     /\ "Concat_#" \in columns(fed)
     /\ ~check_duplicated_index(fed)) =>
        /\ raised = "none"
        /\ Len(ret) = Len(fed)
        /\ \A k \in 1..Len(fed) :
            LET earlier == {j \in 1..(k - 1) :
                                /\ fed[j].Event = "Pellet"
                                /\ fed[j]["Concat_#"] = fed[k]["Concat_#"]}
            IN fed[k].Event = "Pellet" =>
                /\ (fed[k]["Concat_#"] > 0 /\ earlier = {}) => ret[k].value = NaN
                /\ earlier # {} =>
                    ret[k].value = {fed[k].index - fed[Max(earlier)].index}

(***************************************************************************)
(* lightcycle.is_at_night, lightcycle.lightcycle_tuples.  A timestamp is   *)
(* the number of seconds since midnight of the first day; a time of day    *)
(* (datetime.time) is a record [hour, minute].                             *)
(***************************************************************************)
\* pd.Timedelta('24H'), in seconds
day == 24 * 3600

\* the hour and minute fields of a timestamp
TimeOfDay(ts) == [hour |-> (ts % day) \div 3600, minute |-> (ts % 3600) \div 60]

\* time_to_float(x) = x.hour + (1/60) * x.minute, held as the whole number
\* 60 * time_to_float(x); the comparisons made on it are the same
time_to_float(x) == x.hour * 60 + x.minute

is_at_night(x, on, off) ==
    LET ashour == time_to_float(x)
    IN IF time_to_float(on) > time_to_float(off)
       THEN time_to_float(off) <= ashour /\ ashour < time_to_float(on)
       ELSE ashour < time_to_float(on) \/ ashour >= time_to_float(off)

\* ts.replace(hour=x.hour, minute=x.minute): the date and the seconds are kept
replace(ts, x) == (ts - (ts % day)) + x.hour * 3600 + x.minute * 60 + (ts % 60)

\* ts.floor('1T')
floor_minute(ts) == ts - (ts % 60)

\* list(zip(result[::2], result[1::2]))
zip_pairs(stamps) ==
    [i \in 1..(Len(stamps) \div 2) |-> <<stamps[2 * i - 1], stamps[2 * i]>>]

\* the end of the loop body: a step back in time is a step to the next day,
\* and no step passes end_date
Advance(new_t, now, end) ==
    LET next_day == IF new_t < now THEN new_t + day ELSE new_t
    IN IF next_day > end THEN end ELSE next_day

(***************************************************************************)
(* lightcycle_tuples, one loop iteration per step (SpecLightcycle).        *)
(***************************************************************************)
\* end_date - start_date is a multiple of six hours, at most MaxSpans of them
MaxSpans == 8

LightTimes == {[hour |-> 7, minute |-> 0], [hour |-> 19, minute |-> 0],
               [hour |-> 6, minute |-> 30]}

StartDates == {h * 3600 + sec : h \in {0, 7, 12, 19, 22}, sec \in {0, 30}}

Spans == {k * 6 * 3600 : k \in 1..MaxSpans}

InitLightcycle ==
    /\ fed = <<>> /\ dates = <<>> /\ feds = <<>> /\ newfed = <<>>
    /\ raised = "none"
    /\ IdleSignals
    /\ IdleLoad
    /\ pc = "call"
    /\ start_date \in StartDates
    /\ end_date \in {start_date + d : d \in Spans}
    /\ lights_on \in LightTimes
    /\ lights_off \in LightTimes \ {lights_on}
    /\ kind \in {"days", "nights", "weeks"}
    /\ t = 0
    /\ lookfor = "none"
    /\ result = <<>>

\* lines 36-47: the check of `kind` and the initial values of the locals
Enter ==
    /\ pc = "call"
    /\ IF kind \notin {"days", "nights"}
       THEN /\ raised' = "ValueError"
            /\ pc' = "done"
            /\ UNCHANGED <<t, lookfor, result>>
       ELSE /\ result' = <<>>
            /\ t' = start_date
            /\ lookfor' = IF kind = "days" THEN "on" ELSE "off"
            /\ pc' = "walk"
            /\ raised' = raised
    /\ UNCHANGED <<fed, dates, feds, newfed, sigVars, loadVars,
                   start_date, end_date, lights_on, lights_off, kind>>

\* one iteration of the while loop with t != end_date
Walk ==
    /\ pc = "walk"
    /\ t # end_date
    /\ LET night == is_at_night(TimeOfDay(t), lights_on, lights_off)
           found == IF lookfor = "off" THEN night ELSE ~night
           target == IF lookfor = "off"
                     THEN (IF night THEN lights_on ELSE lights_off)
                     ELSE (IF ~night THEN lights_off ELSE lights_on)
           new_t == floor_minute(replace(t, target))
       IN /\ result' = IF found THEN Append(result, t) ELSE result
          /\ lookfor' = IF ~found THEN lookfor
                        ELSE IF lookfor = "off" THEN "on" ELSE "off"
          /\ t' = Advance(new_t, t, end_date)
    /\ UNCHANGED <<fed, dates, feds, newfed, raised, pc, sigVars, loadVars,
                   start_date, end_date, lights_on, lights_off, kind>>

\* the iteration with t == end_date, and lines 80-82
Finish ==
    /\ pc = "walk"
    /\ t = end_date
    /\ result' = zip_pairs(
            IF lookfor = "on"
               /\ is_at_night(TimeOfDay(end_date), lights_on, lights_off)
            THEN Append(result, t) ELSE result)
    /\ pc' = "done"
    /\ UNCHANGED <<fed, dates, feds, newfed, raised, sigVars, loadVars,
                   start_date, end_date, lights_on, lights_off, kind, t, lookfor>>

NextLightcycle == Enter \/ Walk \/ Finish

SpecLightcycle == InitLightcycle /\ [][NextLightcycle]_vars

(***************************************************************************)
(* Claims about the light cycle.                                           *)
(***************************************************************************)
\* C10: day/night intervals over 48 hours: with lights_on=07:00 and
\* lights_off=19:00, for a 48-hour window that begins at 07:00 or at 19:00,
\* lightcycle_tuples(kind='nights') returns exactly 2 intervals, each exactly
\* 12 hours long, in increasing order and not overlapping.
C10_TwoNightsIn48Hours ==
    (/\ pc = "done"
     /\ kind = "nights"
     /\ lights_on = [hour |-> 7, minute |-> 0]
     /\ lights_off = [hour |-> 19, minute |-> 0]
     /\ start_date \in {7 * 3600, 19 * 3600}
     /\ end_date = start_date + 48 * 3600) =>
        /\ raised = "none"
        /\ Len(result) = 2
        /\ \A i \in 1..Len(result) : result[i][2] - result[i][1] = 12 * 3600
        /\ result[1][2] <= result[2][1]

(***************************************************************************)
(* fedframe.FEDFrame.fix_column_names.  A column name is the sequence of   *)
(* its characters; likeness is difflib's SequenceMatcher(a, b).ratio(),    *)
(* twice the number of matched characters over the two lengths, where the  *)
(* matched characters are found by taking the longest common block (the    *)
(* earliest in a, then the earliest in b) and matching to its left and to  *)
(* its right in the same way.                                              *)
(***************************************************************************)
FIXED_COLS ==
    <<<<"D", "e", "v", "i", "c", "e", "_", "N", "u", "m", "b", "e", "r">>,
      <<"B", "a", "t", "t", "e", "r", "y", "_", "V", "o", "l", "t", "a", "g", "e">>,
      <<"M", "o", "t", "o", "r", "_", "T", "u", "r", "n", "s">>,
      <<"S", "e", "s", "s", "i", "o", "n", "_", "T", "y", "p", "e">>,
      <<"E", "v", "e", "n", "t">>,
      <<"A", "c", "t", "i", "v", "e", "_", "P", "o", "k", "e">>,
      <<"L", "e", "f", "t", "_", "P", "o", "k", "e", "_", "C", "o", "u", "n", "t">>,
      <<"R", "i", "g", "h", "t", "_", "P", "o", "k", "e", "_", "C", "o", "u", "n", "t">>,
      <<"P", "e", "l", "l", "e", "t", "_", "C", "o", "u", "n", "t">>,
      <<"R", "e", "t", "r", "i", "e", "v", "a", "l", "_", "T", "i", "m", "e">>>>

NEEDED_COLS ==
    <<<<"P", "e", "l", "l", "e", "t", "_", "C", "o", "u", "n", "t">>,
      <<"L", "e", "f", "t", "_", "P", "o", "k", "e", "_", "C", "o", "u", "n", "t">>,
      <<"R", "i", "g", "h", "t", "_", "P", "o", "k", "e", "_", "C", "o", "u", "n", "t">>>>

RECURSIVE RunLength(_, _, _, _, _, _)
\* the length of the common block of a[i..ahi] and b[j..bhi] that starts at i, j
RunLength(a, i, ahi, b, j, bhi) ==
    IF i > ahi \/ j > bhi THEN 0
    ELSE IF a[i] # b[j] THEN 0
    ELSE 1 + RunLength(a, i + 1, ahi, b, j + 1, bhi)

\* SequenceMatcher.find_longest_match on a[alo..ahi], b[blo..bhi]: <<i, j, size>>
find_longest_match(a, alo, ahi, b, blo, bhi) ==
    LET runs == {<<i, j, RunLength(a, i, ahi, b, j, bhi)>> :
                    i \in alo..ahi, j \in blo..bhi}
        size == Max({r[3] : r \in runs})
        besti == Min({r[1] : r \in {x \in runs : x[3] = size}})
        bestj == Min({r[2] : r \in {x \in runs : x[3] = size /\ x[1] = besti}})
    IN <<besti, bestj, size>>

RECURSIVE get_matching_blocks(_, _, _, _, _, _)
\* the number of characters in the matching blocks of a[alo..ahi], b[blo..bhi]
get_matching_blocks(a, alo, ahi, b, blo, bhi) ==
    IF alo > ahi \/ blo > bhi THEN 0
    ELSE LET m == find_longest_match(a, alo, ahi, b, blo, bhi)
         IN IF m[3] = 0 THEN 0
            ELSE m[3]
                 + get_matching_blocks(a, alo, m[1] - 1, b, blo, m[2] - 1)
                 + get_matching_blocks(a, m[1] + m[3], ahi, b, m[2] + m[3], bhi)

\* SequenceMatcher(a=col, b=fix).ratio() > 0.85, that is 2 * matches / length
\* > 85 / 100, compared without the division
likeness_above_085(col, fix) ==
    LET matches == get_matching_blocks(col, 1, Len(col), fix, 1, Len(fix))
        length == Len(col) + Len(fix)
    IN IF length = 0 THEN TRUE ELSE 200 * matches > 85 * length

RECURSIVE FixLoop(_, _)
\* the loop over FIXED_COLS for one column, from FIXED_COLS[j] on: the
\* appends it makes to foreign_columns and the name the column is given
FixLoop(col, j) ==
    IF j > Len(FIXED_COLS) THEN [appended |-> <<>>, renamed |-> col]
    ELSE IF likeness_above_085(col, FIXED_COLS[j])
         THEN [appended |-> <<>>, renamed |-> FIXED_COLS[j]]
         ELSE LET rest == FixLoop(col, j + 1)
              IN [appended |-> <<col>> \o rest.appended, renamed |-> rest.renamed]

\* self.rename(columns={col: fix}, inplace=True)
rename(cols, col, fix) == [k \in DOMAIN cols |-> IF cols[k] = col THEN fix ELSE cols[k]]

RECURSIVE ColumnLoop(_, _, _, _)
\* the loop over the columns the table had when the loop began
ColumnLoop(original, i, cols, foreign) ==
    IF i > Len(original) THEN [columns |-> cols, foreign_columns |-> foreign]
    ELSE LET inner == FixLoop(original[i], 1)
         IN ColumnLoop(original, i + 1,
                       rename(cols, original[i], inner.renamed),
                       foreign \o inner.appended)

fix_column_names(cols) ==
    LET looped == ColumnLoop(cols, 1, cols, <<>>)
    IN [columns |-> looped.columns,
        foreign_columns |-> looped.foreign_columns,
        missing_columns |->
            SelectSeq(NEEDED_COLS,
                      LAMBDA col : \A k \in DOMAIN looped.columns :
                                        looped.columns[k] # col)]

(***************************************************************************)
(* Loading a table: fix_column_names on the header of a file               *)
(* (SpecColumns).                                                          *)
(***************************************************************************)
\* a table has 1..MaxColumns columns
MaxColumns == 3

\* headers found in files: canonical names, near misses, and other columns
ColumnNames ==
    {<<"D", "e", "v", "i", "c", "e", "_", "N", "u", "m", "b", "e", "r">>,
     <<"P", "e", "l", "l", "e", "t", "_", "C", "o", "u", "n", "t">>,
     <<"P", "e", "l", "l", "e", "t", "C", "o", "u", "n", "t">>,
     <<"E", "v", "e", "n", "t", "s">>,
     <<"T", "e", "m", "p">>}

InitColumns ==
    /\ fed = <<>> /\ dates = <<>> /\ feds = <<>> /\ newfed = <<>>
    /\ raised = "none"
    /\ IdleSignals
    /\ IdleLightcycle
    /\ pc = "read"
    /\ df_columns \in SeqsUpTo(ColumnNames, MaxColumns) \ {<<>>}
    /\ foreign_columns = <<>>
    /\ missing_columns = <<>>
    /\ before = <<>>

FixColumnNames ==
    /\ pc = "read"
    /\ before' = df_columns
    /\ LET fixed == fix_column_names(df_columns)
       IN /\ df_columns' = fixed.columns
          /\ foreign_columns' = fixed.foreign_columns
          /\ missing_columns' = fixed.missing_columns
    /\ pc' = "fixed"
    /\ UNCHANGED <<fed, dates, feds, newfed, raised, sigVars, lcVars>>

NextColumns == FixColumnNames

SpecColumns == InitColumns /\ [][NextColumns]_vars

(***************************************************************************)
(* Claims about fix_column_names.                                          *)
(***************************************************************************)
\* how many entries of the list are the name
Count(list, name) == Cardinality({k \in DOMAIN list : list[k] = name})

\* the name is alike to no canonical name
Unmatched(name) ==
    \A j \in DOMAIN FIXED_COLS : ~likeness_above_085(name, FIXED_COLS[j])

\* C11: foreign_columns is exactly the unmatched columns: after
\* fix_column_names on any table, foreign_columns holds each input column
\* that has likeness <= 0.85 to every canonical name exactly once, and holds
\* no column that was matched and renamed to a canonical name, whatever the
\* position of that canonical name in FIXED_COLS.
C11_ForeignColumnsAreTheUnmatched ==
    pc = "fixed" =>
        /\ \A k \in DOMAIN foreign_columns :
                \E i \in DOMAIN before : before[i] = foreign_columns[k]
        /\ \A i \in DOMAIN before :
                Count(foreign_columns, before[i]) =
                    IF Unmatched(before[i]) THEN Count(before, before[i]) ELSE 0

(***************************************************************************)
(* fedframe.FEDFrame.deduplicate_index.  Timestamps of the frames it is    *)
(* called on are whole numbers of milliseconds; the device logs at whole   *)
(* seconds.                                                                *)
(***************************************************************************)
\* pd.to_timedelta('1S'), the default `offset`, in milliseconds
second == 1000

the_methods == {"keep_first", "keep_last", "remove", "offset", "interpolate"}

\* self.index.duplicated(keep=keep): one flag per row; keep is "first",
\* "last" or "False"
duplicated(df, keep) ==
    [k \in 1..Len(df) |->
        CASE keep = "first" -> \E j \in 1..(k - 1) : df[j].index = df[k].index
          [] keep = "last" -> \E j \in (k + 1)..Len(df) : df[j].index = df[k].index
          [] OTHER -> \E j \in 1..Len(df) : j # k /\ df[j].index = df[k].index]

\* mask = ~ self.index.duplicated(keep='first')
keep_first_mask(df) == [k \in 1..Len(df) |-> ~duplicated(df, "first")[k]]

\* mask = ~ self.index.duplicated(keep='last')
keep_last_mask(df) == [k \in 1..Len(df) |-> ~duplicated(df, "last")[k]]

\* a mask that keeps the first record of every timestamp
remove_mask_extras(df) == keep_first_mask(df)

\* mask = ~ self.index.duplicated(keep=False)
remove_mask(df) == [k \in 1..Len(df) |-> ~duplicated(df, "False")[k]]

RECURSIVE query(_, _)
\* self.query('@mask', inplace=True): the rows whose flag is set, in order
query(df, mask) ==
    IF df = <<>> THEN <<>>
    ELSE (IF Head(mask) THEN <<Head(df)>> ELSE <<>>) \o query(Tail(df), Tail(mask))

\* a nudge that leaves the timestamp where it is
nudge_nowhere(ts, dt) == ts

\* self.index + dt, for one timestamp
nudge(ts, dt) == ts + dt

\* one pass of the while loop: np.where(duplicated, index + dt, index)
offset_pass(df, dt) ==
    LET dup == duplicated(df, "first")
    IN [k \in 1..Len(df) |->
            [df[k] EXCEPT !.index = IF dup[k] THEN nudge(df[k].index, dt)
                                    ELSE df[k].index]]

\* interpolate never refuses
interpolate_raises_never(df) == FALSE

\* self.index.duplicated()[-1]
interpolate_raises(df) == duplicated(df, "first")[Len(df)]

\* Series.interpolate() at row k: linear in the row number between the
\* nearest rows that hold a value; after the last such row, its value.  The
\* result is cut to the millisecond.
interpolate(df, k) ==
    LET dup == duplicated(df, "first")
        p == Max({j \in 1..k : ~dup[j]})
        after == {j \in k..Len(df) : ~dup[j]}
        q == Min(after)
    IN IF after = {} \/ p = q THEN df[p].index
       ELSE df[p].index + ((df[q].index - df[p].index) * (k - p)) \div (q - p)

\* the interpolate branch, when it does not raise
interpolate_index(df) ==
    [k \in 1..Len(df) |-> [df[k] EXCEPT !.index = interpolate(df, k)]]

(***************************************************************************)
(* Cleaning a log with repeated timestamps (SpecDedup, and SpecDedupFair   *)
(* in which a call that was made runs on).                                 *)
(***************************************************************************)
\* timestamps of a log are second, 2 * second, .. MaxStamp * second
MaxStamp == 3
\* rows of a log
MaxRecords == 4
\* `offset` is second, .. MaxStep * second
MaxStep == 2

RECURSIVE Logs(_)
\* all logs of exactly n rows, timestamps in whole seconds and never decreasing
Logs(n) ==
    IF n = 1 THEN {<<FirstRow(s * second, e)>> : s \in 1..MaxStamp, e \in Events}
    ELSE UNION {{Append(f, NextRow(f[n - 1], s * second, e)) :
                    s \in (f[n - 1].index \div second)..MaxStamp, e \in Events} :
                f \in Logs(n - 1)}

InitDedup ==
    /\ fed \in UNION {Logs(n) : n \in 1..MaxRecords}
    /\ dates = <<>> /\ feds = <<>> /\ newfed = <<>>
    /\ raised = "none"
    /\ pc = "loaded"
    /\ Idle

\* deduplicate_index(method, offset) up to the while loop of 'offset'
Deduplicate ==
    /\ pc = "loaded"
    /\ before' = fed
    /\ \E m \in the_methods \cup {"nearest"} :
       \E dt \in {k * second : k \in 1..MaxStep} :
        /\ m # "offset" => dt = second
        /\ method' = [name |-> "deduplicate_index", method |-> m, offset |-> dt]
        /\ CASE m \notin the_methods ->
                    raised' = "ValueError" /\ fed' = fed /\ pc' = "returned"
             [] m = "keep_first" ->
                    raised' = raised /\ fed' = query(fed, keep_first_mask(fed))
                    /\ pc' = "returned"
             [] m = "keep_last" ->
                    raised' = raised /\ fed' = query(fed, keep_last_mask(fed))
                    /\ pc' = "returned"
             [] m = "remove" ->
                    raised' = raised /\ fed' = query(fed, remove_mask(fed))
                    /\ pc' = "returned"
             [] m = "offset" ->
                    raised' = raised /\ fed' = fed /\ pc' = "offset"
             [] m = "interpolate" ->
                    IF interpolate_raises(fed)
                    THEN raised' = "ValueError" /\ fed' = fed /\ pc' = "returned"
                    ELSE raised' = raised /\ fed' = interpolate_index(fed)
                         /\ pc' = "returned"
    /\ UNCHANGED <<dates, feds, newfed, ret, lcVars,
                   df_columns, foreign_columns, missing_columns>>

\* one iteration of `while self.check_duplicated_index()`
OffsetPass ==
    /\ pc = "offset"
    /\ check_duplicated_index(fed)
    /\ fed' = offset_pass(fed, method.offset)
    /\ UNCHANGED <<dates, feds, newfed, raised, pc, sigVars, lcVars, loadVars>>

\* the while loop ends
OffsetReturn ==
    /\ pc = "offset"
    /\ ~check_duplicated_index(fed)
    /\ pc' = "returned"
    /\ UNCHANGED <<fed, dates, feds, newfed, raised, sigVars, lcVars, loadVars>>

NextDedup == Deduplicate \/ OffsetPass \/ OffsetReturn

SpecDedup == InitDedup /\ [][NextDedup]_vars

SpecDedupFair == SpecDedup /\ WF_vars(NextDedup)

(***************************************************************************)
(* Claims about deduplicate_index.                                         *)
(***************************************************************************)
Deduplicated(m) ==
    pc = "returned" /\ method.name = "deduplicate_index" /\ method.method = m

\* the timestamp of row k occurs once in the frame
UniqueStamp(df, k) == \A j \in 1..Len(df) : df[j].index = df[k].index => j = k

\* the rows of the frame without their timestamps
Values(df) == [k \in 1..Len(df) |-> [c \in DOMAIN df[k] \ {"index"} |-> df[k][c]]]

\* C12: policy 'remove' drops whole duplicate groups: after
\* deduplicate_index('remove') no two remaining records share a timestamp,
\* every record whose timestamp occurred more than once in the input is gone
\* (all members of the group), and every record whose timestamp was unique
\* in the input is kept unchanged and in its original order.
C12_RemoveDropsWholeGroups ==
    Deduplicated("remove") =>
        /\ raised = "none"
        /\ ~check_duplicated_index(fed)
        /\ \A k \in 1..Len(before) :
                ~UniqueStamp(before, k) =>
                    \A j \in 1..Len(fed) : fed[j].index # before[k].index
        /\ fed = SelectSeq(before,
                           LAMBDA r : Cardinality({j \in 1..Len(before) :
                                            before[j].index = r.index}) = 1)

\* 'remove' was called on a log with a repeated timestamp and a unique one
C12_Witness ==
    /\ Deduplicated("remove")
    /\ \E k \in 1..Len(before) : ~UniqueStamp(before, k)
    /\ \E k \in 1..Len(before) : UniqueStamp(before, k)
    /\ fed # <<>>

\* C13: policy 'offset' converges: for any log and any strictly positive
\* step, deduplicate_index('offset') returns after finitely many passes, and
\* when it has returned no two records share a timestamp (also when a nudged
\* timestamp collided with another record's timestamp and more passes were
\* needed); the number of records and their values are unchanged.
C13_OffsetConverges ==
    /\ (pc = "offset") ~> (pc = "returned")
    /\ [](Deduplicated("offset") =>
            /\ raised = "none"
            /\ ~check_duplicated_index(fed)
            /\ Len(fed) = Len(before)
            /\ Values(fed) = Values(before))

\* 'offset' returned for a log in which the nudged record landed on the
\* timestamp of another record
C13_Witness ==
    /\ Deduplicated("offset")
    /\ \E i \in 1..Len(before) : \E j \in (i + 1)..Len(before) :
       \E k \in 1..Len(before) :
            /\ before[i].index = before[j].index
            /\ before[j].index + method.offset = before[k].index

\* C16: interpolation fails cleanly without a right bound:
\* deduplicate_index('interpolate') on a non-empty log whose final record's
\* timestamp repeats an earlier one fails with ValueError and leaves the
\* log's timestamps and records exactly as they were; an unrecognized policy
\* name likewise fails with ValueError and leaves the log unchanged.
C16_InterpolateFailsCleanly ==
    /\ (/\ Deduplicated("interpolate")
        /\ before # <<>>
        /\ \E j \in 1..(Len(before) - 1) :
                before[j].index = before[Len(before)].index) =>
            raised = "ValueError" /\ fed = before
    /\ (/\ pc = "returned"
        /\ method.name = "deduplicate_index"
        /\ method.method \notin the_methods) =>
            raised = "ValueError" /\ fed = before

\* 'interpolate' was called on a log whose last timestamp repeats an earlier
\* one, after a timestamp that does not
C16_Witness ==
    /\ Deduplicated("interpolate")
    /\ Len(before) >= 3
    /\ before[Len(before) - 1].index = before[Len(before)].index
    /\ before[1].index # before[Len(before)].index
    /\ raised = "ValueError"

\* the timestamps of the frame never decrease from one row to the next
Chronological(df) == \A k \in 1..(Len(df) - 1) : df[k].index <= df[k + 1].index

\* C18: deduplication preserves chronological order: for any log whose
\* records are sorted by timestamp ascending, after deduplicate_index with
\* policy 'offset' (any positive step) the records are still in
\* non-decreasing timestamp order: a nudged timestamp never moves past the
\* timestamp of a later record.
C18_OffsetKeepsOrder ==
    (Deduplicated("offset") /\ Chronological(before)) => Chronological(fed)

(***************************************************************************)
(* fedfuncs.timecrop                                                       *)
(***************************************************************************)
\* the rows up to and including `start`
TimecropPrior_inclusive(df, start) == SelectSeq(df, LAMBDA r : r.index <= start)

\* prior = fed[(fed.index < start)]
TimecropPrior(df, start) == SelectSeq(df, LAMBDA r : r.index < start)

\* fed[(fed.index >= start) & (fed.index < end)].copy()
TimecropWindow(df, start, end) ==
    SelectSeq(df, LAMBDA r : r.index >= start /\ r.index < end)

\* the loop over reset_columns: newfed[col] -= prior[col].max()
TimecropRebase(window, prior) ==
    [k \in 1..Len(window) |->
        [c \in DOMAIN window[k] |->
            IF c \in reset_columns /\ prior # <<>>
            THEN window[k][c] - ColMax(prior, c)
            ELSE window[k][c]]]

timecrop(df, start, end) ==
    TimecropRebase(TimecropWindow(df, start, end), TimecropPrior(df, start))

(***************************************************************************)
(* Cropping a recording (SpecTimecrop).                                    *)
(***************************************************************************)
InitTimecrop ==
    /\ fed \in RecordingsUpTo(MaxRows)
    /\ dates = <<>> /\ feds = <<>> /\ newfed = <<>>
    /\ raised = "none"
    /\ pc = "crop"
    /\ IdleSignals
    /\ IdleLightcycle
    /\ df_columns = <<>> /\ foreign_columns = <<>> /\ missing_columns = <<>>
    /\ before = fed

Timecrop ==
    /\ pc = "crop"
    /\ \E start \in 0..(MaxTime + 1) : \E end \in 0..(MaxTime + 1) :
        /\ method' = [name |-> "timecrop", start |-> start, end |-> end]
        /\ newfed' = timecrop(fed, start, end)
    /\ pc' = "cropped"
    /\ UNCHANGED <<fed, dates, feds, raised, ret, lcVars, loadVars>>

NextTimecrop == Timecrop

SpecTimecrop == InitTimecrop /\ [][NextTimecrop]_vars

(***************************************************************************)
(* Claims about timecrop.                                                  *)
(***************************************************************************)
\* C14: timecrop rebases to the window: timecrop(dataset, start, end)
\* returns exactly the records with start <= timestamp < end; if some record
\* lies strictly before start, each reset-eligible counter of every returned
\* record equals its original value minus the maximum of that counter over
\* the records strictly before start, and if no record lies before start the
\* counters are returned unchanged; the input dataset's records and counters
\* are not modified.
C14_TimecropRebasesToWindow ==
    pc = "cropped" =>
        LET start == method.start
            end == method.end
            inside == {k \in 1..Len(fed) :
                            start <= fed[k].index /\ fed[k].index < end}
            some_before == \E k \in 1..Len(fed) : fed[k].index < start
        IN /\ Len(newfed) = Cardinality(inside)
           /\ \A k \in inside :
                LET n == Cardinality({j \in inside : j <= k})
                IN /\ newfed[n].index = fed[k].index
                   /\ newfed[n].Event = fed[k].Event
                   /\ \A c \in reset_columns :
                        newfed[n][c] =
                            IF some_before
                            THEN fed[k][c] - MaxBefore(fed, c, start)
                            ELSE fed[k][c]
           /\ fed = before

\* a crop with records before the window, inside it and after it
C14_Witness ==
    /\ pc = "cropped"
    /\ newfed # <<>>
    /\ \E k \in 1..Len(fed) : fed[k].index < method.start
    /\ \E k \in 1..Len(fed) : fed[k].index >= method.end

(***************************************************************************)
(* Asking a frame for the event of one of its records (SpecEventType).     *)
(* The frame is a recording, or a table of a file without an Event column  *)
(* whose three counters hold any counts that never decrease.               *)
(***************************************************************************)
\* counters of a table without an Event column are drawn from 0..MaxCount
MaxCount == 2
\* rows of such a table
MaxLegacyRows == 2

CounterRow(ts, p, l, r) ==
    [index |-> ts, Pellet_Count |-> p, Left_Poke_Count |-> l, Right_Poke_Count |-> r]

RECURSIVE LegacyTables(_)
\* all tables of exactly n rows, the row k at timestamp k
LegacyTables(n) ==
    IF n = 1 THEN {<<CounterRow(1, p, l, r)>> :
                        p \in 0..MaxCount, l \in 0..MaxCount, r \in 0..MaxCount}
    ELSE UNION {{Append(f, CounterRow(n, p, l, r)) :
                    p \in f[n - 1].Pellet_Count..MaxCount,
                    l \in f[n - 1].Left_Poke_Count..MaxCount,
                    r \in f[n - 1].Right_Poke_Count..MaxCount} :
                f \in LegacyTables(n - 1)}

InitEventType ==
    /\ fed \in UNION {LegacyTables(n) : n \in 1..MaxLegacyRows}
                \cup RecordingsUpTo(MaxLegacyRows)
    /\ dates = <<>> /\ feds = <<>> /\ newfed = <<>>
    /\ raised = "none"
    /\ pc = "loaded"
    /\ Idle

\* event_type(timestamp, poke_side) for the timestamp of a record
EventType ==
    /\ pc = "loaded"
    /\ \E k \in 1..Len(fed) : \E poke_side \in BOOLEAN :
        /\ method' = [name |-> "event_type", timestamp |-> fed[k].index,
                      poke_side |-> poke_side]
        /\ IF event_type_raises(fed, fed[k].index)
           THEN raised' = "Exception" /\ ret' = ret
           ELSE raised' = raised /\ ret' = event_type(fed, fed[k].index, poke_side)
    /\ pc' = "returned"
    /\ UNCHANGED <<fed, dates, feds, newfed, lcVars, loadVars>>

NextEventType == EventType

SpecEventType == InitEventType /\ [][NextEventType]_vars

(***************************************************************************)
(* Claims about event_type.                                                *)
(***************************************************************************)
\* C15: counter-based event inference disambiguates only on exactly two zero
\* counters: for a frame without an Event column, event_type(timestamp)
\* returns an event label if and only if exactly two of Pellet_Count,
\* Left_Poke_Count, Right_Poke_Count are zero at that record; when none, one
\* or all three of them are zero it fails with an error and returns no label.
C15_LabelOnlyOnExactlyTwoZero ==
    (Returned("event_type") /\ "Event" \notin columns(fed)) =>
        LET zeros == Cardinality({c \in reset_columns :
                                    RowAt(fed, method.timestamp)[c] = 0})
        IN IF zeros = 2
           THEN raised = "none" /\ ret \in {"Pellet", "Left", "Right", "Poke"}
           ELSE raised = "Exception" /\ ret = <<>>

\* event_type was asked about a record with all three counters zero
C15_Witness ==
    /\ Returned("event_type")
    /\ "Event" \notin columns(fed)
    /\ \A c \in reset_columns : RowAt(fed, method.timestamp)[c] = 0
    /\ raised = "Exception"

(***************************************************************************)
(* lightcycle_tuples as a function of its arguments: the walk of Enter,    *)
(* Walk and Finish from start_date to end_date.                            *)
(***************************************************************************)
RECURSIVE WalkFrom(_, _, _, _, _, _)
\* the while loop from the cursor `now` on, and the pairing that follows it
WalkFrom(now, look, stamps, end, on, off) ==
    IF now = end
    THEN zip_pairs(IF look = "on" /\ is_at_night(TimeOfDay(end), on, off)
                   THEN Append(stamps, now) ELSE stamps)
    ELSE LET night == is_at_night(TimeOfDay(now), on, off)
             found == IF look = "off" THEN night ELSE ~night
             target == IF look = "off"
                       THEN (IF night THEN on ELSE off)
                       ELSE (IF ~night THEN off ELSE on)
             new_t == floor_minute(replace(now, target))
         IN WalkFrom(Advance(new_t, now, end),
                     IF ~found THEN look ELSE IF look = "off" THEN "on" ELSE "off",
                     IF found THEN Append(stamps, now) ELSE stamps,
                     end, on, off)

\* lightcycle_tuples(start, end, on, off, kind) for kind 'days' or 'nights'
lightcycle_tuples(start, end, on, off, knd) ==
    WalkFrom(start, IF knd = "days" THEN "on" ELSE "off", <<>>, end, on, off)

\* C17: day and night intervals tile the requested range: for any start <
\* end and any lights_on != lights_off, every interval returned by
\* lightcycle_tuples has start < end, and the 'days' intervals together with
\* the 'nights' intervals cover [start, end] with no gap and no overlap; an
\* interval still open when the walk reaches the end timestamp (a day in
\* progress at end, or a night in progress when end falls on lights-on) is
\* closed at end and returned, not dropped.
C17_DaysAndNightsTile ==
    (pc = "done" /\ kind \in {"days", "nights"}) =>
        LET days == IF kind = "days" THEN result
                    ELSE lightcycle_tuples(start_date, end_date,
                                           lights_on, lights_off, "days")
            nights == IF kind = "nights" THEN result
                      ELSE lightcycle_tuples(start_date, end_date,
                                             lights_on, lights_off, "nights")
            both == days \o nights
            points == {start_date} \cup
                      UNION {{both[i][1], both[i][2]} : i \in 1..Len(both)}
        IN /\ raised = "none"
           /\ \A i \in 1..Len(both) :
                /\ both[i][1] < both[i][2]
                /\ start_date <= both[i][1]
                /\ both[i][2] <= end_date
           /\ \A p \in points :
                p < end_date =>
                    Cardinality({i \in 1..Len(both) :
                                    both[i][1] <= p /\ p < both[i][2]}) = 1

====
